---- MODULE Spec2Model ----
(***************************************************************************)
(* Voice-Sentiment-Analyzer: the two copies of analyze_audio (the Flask    *)
(* one in app.py and the Streamlit one in streamlit_app.py) as a state     *)
(* machine over a shared file system.  A run decodes a track, cuts it in   *)
(* 10 s chunks and, per chunk, exports a wav file, reads it back, calls    *)
(* the recognizer, conditionally the classifier, and appends one record.   *)
(*                                                                         *)
(* Units.  Times are milliseconds or whole seconds as in the code.  A raw  *)
(* classifier score s stands for the probability s/3000, so s/3 is the     *)
(* score in tenths of a percent; on that grid no value lies exactly half   *)
(* way between two tenths, as is the case for the float scores the code    *)
(* rounds.  Rounded scores and confidences are integers in tenths of a     *)
(* percent (923 is 92.3).                                                  *)
(***************************************************************************)
EXTENDS Integers, Sequences, FiniteSets, TLC

VARIABLES
    run,      \* run[r]: the locals of one call of analyze_audio, and its position pc
    fs,       \* the file system: path -> content of the file at that path
    recMemo,  \* what the recognizer answered for an audio content
    clsMemo,  \* what the classifier answered for the transcript of an audio content
    env,      \* the answers the collaborators may give in this behaviour
    chunks,   \* chunks[r]: the spans audio[i:i+W] the run has cut, in order
    calls     \* calls[r]: the external calls and appends of the run, in order

vars == <<run, fs, recMemo, clsMemo, env, chunks, calls>>

Runs == {1, 2}
Variants == {"flask", "streamlit"}

---------------------------------------------------------------------------
(* Constants of the code *)

chunk_length_ms == 10000

UPLOAD_FOLDER == "uploads"

INAUDIBLE == "[inaudible]"

UNAVAILABLE == "[speech service unavailable]"

Sentinels == {INAUDIBLE, UNAVAILABLE}

UnknownEmotion == [label |-> "unknown", score |-> 0]

\* Marks a local that no statement has bound yet.
Unbound == "<unbound>"

NoChunk == [track |-> 0, from |-> 0, to |-> 0]

---------------------------------------------------------------------------
(* Bounds and inputs *)

MaxHalfWindows == 5

HalfWindow == chunk_length_ms \div 2

\* Short tracks, run against every collaborator answer.
Durations ==
    {k * HalfWindow : k \in 0..MaxHalfWindows} \cup {1, 999, 1000, 9999, 10001, 20500}

\* Tracks of more than a minute, run against quiet collaborators.
LongDurations == {61500, 130000}

\* Tracks of the two-run specifications.
ConcDurations == {0, 10000, 15000}

TmpNames == {"/tmp/tmpa.wav", "/tmp/tmpb.wav"}

Texts == {"", "I am happy today"}

ScoreVals == {300, 1349, 1351}

\* A classifier answer in the model's label order: anger a, joy b, the rest low.
Scores(a, b) ==
    << [label |-> "anger", score |-> a],
       [label |-> "disgust", score |-> 30],
       [label |-> "fear", score |-> 30],
       [label |-> "joy", score |-> b],
       [label |-> "neutral", score |-> 60],
       [label |-> "sadness", score |-> 30],
       [label |-> "surprise", score |-> 30] >>

\* The classifier answer of the spec's scenario B (92.3, 4.1, 1.2, 0.9, 0.8, 0.5, 0.2).
ScenarioB ==
    << [label |-> "joy", score |-> 2769],
       [label |-> "neutral", score |-> 123],
       [label |-> "sadness", score |-> 36],
       [label |-> "anger", score |-> 27],
       [label |-> "fear", score |-> 24],
       [label |-> "surprise", score |-> 15],
       [label |-> "disgust", score |-> 6] >>

ScoreLists == {Scores(a, b) : a, b \in ScoreVals} \cup {ScenarioB}

RecText(t) == [kind |-> "text", text |-> t]

RecRaise(k) == [kind |-> k, text |-> ""]

RecOutcomes ==
    {RecText(t) : t \in Texts}
        \cup {RecRaise("UnknownValueError"), RecRaise("RequestError"), RecRaise("error")}

ClsScores(s) == [kind |-> "scores", scores |-> s]

ClsRaise == [kind |-> "error", scores |-> <<>>]

ClsOutcomes == {ClsScores(s) : s \in ScoreLists} \cup {ClsRaise}

FullEnv == [rec |-> RecOutcomes, cls |-> ClsOutcomes]

QuietEnv ==
    [rec |-> {RecRaise("UnknownValueError")}, cls |-> {ClsScores(ScenarioB)}]

SmallEnv ==
    [rec |-> {RecText("I am happy today"), RecRaise("RequestError"), RecRaise("error")},
     cls |-> {ClsScores(ScenarioB), ClsRaise}]

---------------------------------------------------------------------------
(* The pure pieces of analyze_audio *)

Min(a, b) == IF a < b THEN a ELSE b

\* range(0, len(audio), chunk_length_ms) yields i
InRange(i, len) == i < len

NextIndex(i) == i + chunk_length_ms

\* A slice whose end is not clamped to the track.
SliceUnclamped(track, len, i) ==
    [track |-> track, from |-> i, to |-> i + chunk_length_ms]

\* audio[i:i + chunk_length_ms]: pydub clamps both ends of a slice to the track
Slice(track, len, i) ==
    [track |-> track, from |-> Min(i, len), to |-> Min(i + chunk_length_ms, len)]

StartSec(i) == i \div 1000

\* The end of the window, not clamped to the track.
EndSecUnclamped(i, len) == (i + chunk_length_ms) \div 1000

EndSec(i, len) == Min((i + chunk_length_ms) \div 1000, len \div 1000)

\* {n:02d}
Pad2(n) == IF n < 10 THEN "0" \o ToString(n) ELSE ToString(n)

\* f"{s // 60}:{s % 60:02d}"
Clock(sec) == ToString(sec \div 60) \o ":" \o Pad2(sec % 60)

Timestamp(start_sec, end_sec) == Clock(start_sec) \o " - " \o Clock(end_sec)

\* (len(audio) + chunk_length_ms - 1) // chunk_length_ms
TotalChunks(len) == (len + chunk_length_ms - 1) \div chunk_length_ms

ChunkPath(variant, tmp_path) ==
    IF variant = "flask"
    THEN UPLOAD_FOLDER \o "/" \o "temp_chunk.wav"
    ELSE tmp_path \o "_chunk.wav"

\* Only the emptiness test, without the sentinels.
IsNonEmptyText(text) == text # ""

\* if text and text not in ["[inaudible]", "[speech service unavailable]"]
IsRealText(text) == text # "" /\ text \notin Sentinels

\* The last item with the greatest score, where max() returns the first.
MaxByScoreLast(emotions) ==
    LET best == CHOOSE k \in 1..Len(emotions) :
                    /\ \A j \in 1..Len(emotions) : emotions[j].score <= emotions[k].score
                    /\ \A j \in (k + 1)..Len(emotions) : emotions[j].score < emotions[k].score
    IN  emotions[best]

\* max(emotions, key=lambda x: x['score']): the first item with the greatest score
MaxByScore(emotions) ==
    LET best == CHOOSE k \in 1..Len(emotions) :
                    /\ \A j \in 1..Len(emotions) : emotions[j].score <= emotions[k].score
                    /\ \A j \in 1..(k - 1) : emotions[j].score < emotions[k].score
    IN  emotions[best]

\* round(score * 100, 1), in tenths of a percent
Round1(score) == (2 * score + 3) \div 6

RECURSIVE DictFrom(_)
\* {e["label"]: round(e["score"] * 100, 1) for e in emotions}: a dict keeps the
\* place of a key's first insertion and the value of its last
DictFrom(emotions) ==
    IF emotions = <<>> THEN <<>>
    ELSE LET front == DictFrom(SubSeq(emotions, 1, Len(emotions) - 1))
             e == emotions[Len(emotions)]
             item == [label |-> e.label, value |-> Round1(e.score)]
         IN  IF \E k \in 1..Len(front) : front[k].label = e.label
             THEN [k \in 1..Len(front) |->
                      IF front[k].label = e.label THEN item ELSE front[k]]
             ELSE Append(front, item)

MakeRecord(timestamp, start_sec, text, top_emotion, emotions) ==
    [timestamp |-> timestamp,
     start_seconds |-> start_sec,
     text |-> text,
     top_emotion |-> top_emotion.label,
     confidence |-> Round1(top_emotion.score),
     all_emotions |-> DictFrom(emotions)]

\* results.insert(0, ...) where the code appends.
PrependRecord(results, rec) == <<rec>> \o results

AppendRecord(results, rec) == Append(results, rec)

---------------------------------------------------------------------------
(* State *)

NewRun(pc, variant, track, decodable, dur) ==
    [pc |-> pc, variant |-> variant, track |-> track,
     decodable |-> decodable, dur |-> dur,
     tmp_path |-> Unbound, audio |-> 0, total_chunks |-> 0, progress |-> <<0, 0>>,
     i |-> 0, idx |-> 0, chunk |-> NoChunk,
     start_sec |-> 0, end_sec |-> 0, timestamp |-> Unbound, chunk_path |-> Unbound,
     audio_data |-> NoChunk, text |-> Unbound,
     emotions |-> <<>>, top_emotion |-> UnknownEmotion,
     results |-> <<>>, err |-> "none"]

IdleRun == NewRun("idle", "flask", 0, TRUE, 0)

Inputs ==
    {<<TRUE, d, FullEnv>> : d \in Durations}
        \cup {<<TRUE, d, QuietEnv>> : d \in LongDurations}
        \cup {<<FALSE, 0, QuietEnv>>}

Common ==
    /\ fs = <<>>
    /\ recMemo = <<>>
    /\ clsMemo = <<>>
    /\ chunks = [r \in Runs |-> <<>>]
    /\ calls = [r \in Runs |-> <<>>]

\* One call of analyze_audio, of either copy.
Init ==
    /\ Common
    /\ \E v \in Variants, inp \in Inputs :
          /\ run = [r \in Runs |->
                       IF r = 1 THEN NewRun("start", v, 1, inp[1], inp[2]) ELSE IdleRun]
          /\ env = inp[3]

\* Two calls of the same copy at once, each on its own track.
InitConc ==
    /\ Common
    /\ env = SmallEnv
    /\ \E v \in Variants, d1, d2 \in ConcDurations :
          run = [r \in Runs |-> NewRun("start", v, r, TRUE, IF r = 1 THEN d1 ELSE d2)]

\* The two copies on the same track.
InitPair ==
    /\ Common
    /\ env = SmallEnv
    /\ \E d \in ConcDurations :
          run = [r \in Runs |->
                    NewRun("start", IF r = 1 THEN "flask" ELSE "streamlit", 1, TRUE, d)]

---------------------------------------------------------------------------
(* File system and collaborators *)

Exists(path) == path \in DOMAIN fs

Put(f, k, v) == [x \in DOMAIN f \cup {k} |-> IF x = k THEN v ELSE f[x]]

Remove(f, k) == [x \in DOMAIN f \ {k} |-> f[x]]

\* The answers a collaborator may give for content c: the one it gave before, if any.
Answers(memo, c, all) == IF c \in DOMAIN memo THEN {memo[c]} ELSE all

Raise(r, kind) == [run[r] EXCEPT !.pc = "raised", !.err = kind]

\* One more entry of calls[r]: the call, the chunk's start in ms, what came back.
Log(r, what, start, back) == [calls EXCEPT ![r] = Append(@, <<what, start, back>>)]

Raised == "<raised>"

---------------------------------------------------------------------------
(* analyze_audio, step by step *)

\* streamlit: the upload is written to a fresh temporary file; both: the track is
\* decoded and the locals before the loop are set.
Decode(r) ==
    /\ run[r].pc = "start"
    /\ \E name \in TmpNames :
          /\ run[r].variant = "streamlit" => ~Exists(name)
          /\ run[r].variant = "flask" => name = CHOOSE n \in TmpNames : TRUE
          /\ LET tmp == IF run[r].variant = "streamlit" THEN name ELSE Unbound
                 upload == [track |-> run[r].track, from |-> 0, to |-> run[r].dur]
                 bound == [run[r] EXCEPT !.tmp_path = tmp]
             IN  /\ fs' = IF run[r].variant = "streamlit" THEN Put(fs, name, upload) ELSE fs
                 /\ run' = [run EXCEPT ![r] =
                       IF run[r].decodable
                       THEN [bound EXCEPT
                                !.pc = "loop",
                                !.audio = run[r].dur,
                                !.results = <<>>,
                                !.total_chunks =
                                    IF run[r].variant = "streamlit"
                                    THEN TotalChunks(run[r].dur) ELSE 0]
                       ELSE [bound EXCEPT !.pc = "raised", !.err = "DecodeError"]]
    /\ UNCHANGED <<recMemo, clsMemo, env, chunks, calls>>

\* for i in range(0, len(audio), chunk_length_ms): the chunk, its label and its path
LoopHead(r) ==
    /\ run[r].pc = "loop"
    /\ IF InRange(run[r].i, run[r].audio)
       THEN LET i == run[r].i
                start_sec == StartSec(i)
                end_sec == EndSec(i, run[r].audio)
                chunk == Slice(run[r].track, run[r].audio, i)
            IN  /\ run' = [run EXCEPT ![r] =
                      [@ EXCEPT !.pc = "export",
                                !.chunk = chunk,
                                !.start_sec = start_sec,
                                !.end_sec = end_sec,
                                !.timestamp = Timestamp(start_sec, end_sec),
                                !.chunk_path = ChunkPath(run[r].variant, run[r].tmp_path)]]
                /\ chunks' = [chunks EXCEPT ![r] = Append(@, <<chunk.from, chunk.to>>)]
       ELSE /\ run' = [run EXCEPT ![r].pc = "after_loop"]
            /\ UNCHANGED chunks
    /\ UNCHANGED <<fs, recMemo, clsMemo, env, calls>>

\* chunk.export(chunk_path, format="wav")
Export(r) ==
    /\ run[r].pc = "export"
    /\ fs' = Put(fs, run[r].chunk_path, run[r].chunk)
    /\ run' = [run EXCEPT ![r].pc = "open"]
    /\ UNCHANGED <<recMemo, clsMemo, env, chunks, calls>>

\* with sr.AudioFile(chunk_path) as source: audio_data = recognizer.record(source)
OpenRecord(r) ==
    /\ run[r].pc = "open"
    /\ run' = [run EXCEPT ![r] =
          IF Exists(run[r].chunk_path)
          THEN [@ EXCEPT !.pc = "recognize", !.audio_data = fs[run[r].chunk_path]]
          ELSE Raise(r, "FileNotFoundError")]
    /\ UNCHANGED <<fs, recMemo, clsMemo, env, chunks, calls>>

\* try: text = recognizer.recognize_google(audio_data), with its two except clauses
Recognize(r) ==
    /\ run[r].pc = "recognize"
    /\ \E o \in Answers(recMemo, run[r].audio_data, env.rec) :
          /\ recMemo' = Put(recMemo, run[r].audio_data, o)
          /\ run' = [run EXCEPT ![r] =
                CASE o.kind = "text" -> [@ EXCEPT !.pc = "classify", !.text = o.text]
                  [] o.kind = "UnknownValueError" ->
                        [@ EXCEPT !.pc = "classify", !.text = INAUDIBLE]
                  [] o.kind = "RequestError" ->
                        [@ EXCEPT !.pc = "classify", !.text = UNAVAILABLE]
                  [] OTHER -> Raise(r, "RecognizerError")]
    /\ calls' = Log(r, "recognize", run[r].i,
                     IF run'[r].pc = "raised" THEN Raised ELSE run'[r].text)
    /\ UNCHANGED <<fs, clsMemo, env, chunks>>

\* the if branch: emotions = emotion_classifier(text)[0]; top_emotion = max(...)
Classify(r) ==
    /\ run[r].pc = "classify"
    /\ IsRealText(run[r].text)
    /\ \E o \in Answers(clsMemo, run[r].audio_data, env.cls) :
          /\ clsMemo' = Put(clsMemo, run[r].audio_data, o)
          /\ run' = [run EXCEPT ![r] =
                IF o.kind = "scores"
                THEN [@ EXCEPT !.pc = "append",
                               !.emotions = o.scores,
                               !.top_emotion = MaxByScore(o.scores)]
                ELSE Raise(r, "ClassifierError")]
    /\ calls' = Log(r, "classify", run[r].i,
                     IF run'[r].pc = "raised" THEN Raised ELSE run'[r].top_emotion.label)
    /\ UNCHANGED <<fs, recMemo, env, chunks>>

\* the else branch: emotions = []; top_emotion = {"label": "unknown", "score": 0}
SkipClassify(r) ==
    /\ run[r].pc = "classify"
    /\ ~IsRealText(run[r].text)
    /\ run' = [run EXCEPT ![r] =
          [@ EXCEPT !.pc = "append", !.emotions = <<>>, !.top_emotion = UnknownEmotion]]
    /\ UNCHANGED <<fs, recMemo, clsMemo, env, chunks, calls>>

\* results.append({...}); streamlit then updates the progress bar and cleans the
\* chunk up, flask goes on to the next chunk
AppendResult(r) ==
    /\ run[r].pc = "append"
    /\ LET rec == MakeRecord(run[r].timestamp, run[r].start_sec, run[r].text,
                             run[r].top_emotion, run[r].emotions)
       IN  run' = [run EXCEPT ![r] =
              IF run[r].variant = "flask"
              THEN [@ EXCEPT !.pc = "loop",
                             !.results = AppendRecord(@, rec),
                             !.i = NextIndex(@)]
              ELSE [@ EXCEPT !.pc = "chunk_exists",
                             !.results = AppendRecord(@, rec),
                             !.progress = <<run[r].idx + 1, run[r].total_chunks>>]]
    /\ calls' = Log(r, "append", run[r].i, run[r].text)
    /\ UNCHANGED <<fs, recMemo, clsMemo, env, chunks>>

\* Where a run goes on after its chunk clean-up: streamlit cleans up inside the
\* loop, flask after it.
AfterCleanup(r) ==
    IF run[r].variant = "flask"
    THEN [run[r] EXCEPT !.pc = "done"]
    ELSE [run[r] EXCEPT !.pc = "loop", !.i = NextIndex(@), !.idx = @ + 1]

\* if os.path.exists(chunk_path):
ChunkExists(r) ==
    /\ run[r].pc = "chunk_exists"
    /\ run' = [run EXCEPT ![r] =
          IF Exists(run[r].chunk_path)
          THEN [@ EXCEPT !.pc = "chunk_remove"]
          ELSE AfterCleanup(r)]
    /\ UNCHANGED <<fs, recMemo, clsMemo, env, chunks, calls>>

\* os.remove(chunk_path)
ChunkRemove(r) ==
    /\ run[r].pc = "chunk_remove"
    /\ IF Exists(run[r].chunk_path)
       THEN /\ fs' = Remove(fs, run[r].chunk_path)
            /\ run' = [run EXCEPT ![r] = AfterCleanup(r)]
       ELSE /\ fs' = fs
            /\ run' = [run EXCEPT ![r] = Raise(r, "FileNotFoundError")]
    /\ UNCHANGED <<recMemo, clsMemo, env, chunks, calls>>

\* app.py after the loop: chunk_path is read, bound or not
FlaskAfterLoop(r) ==
    /\ run[r].pc = "after_loop"
    /\ run[r].variant = "flask"
    /\ run' = [run EXCEPT ![r] =
          IF run[r].chunk_path = Unbound
          THEN Raise(r, "UnboundLocalError")
          ELSE [@ EXCEPT !.pc = "chunk_exists"]]
    /\ UNCHANGED <<fs, recMemo, clsMemo, env, chunks, calls>>

\* streamlit_app.py after the loop: os.remove(tmp_path); progress_bar.empty(); return
StreamlitAfterLoop(r) ==
    /\ run[r].pc = "after_loop"
    /\ run[r].variant = "streamlit"
    /\ IF Exists(run[r].tmp_path)
       THEN /\ fs' = Remove(fs, run[r].tmp_path)
            /\ run' = [run EXCEPT ![r] = [@ EXCEPT !.pc = "done", !.progress = <<0, 0>>]]
       ELSE /\ fs' = fs
            /\ run' = [run EXCEPT ![r] = Raise(r, "FileNotFoundError")]
    /\ UNCHANGED <<recMemo, clsMemo, env, chunks, calls>>

Next ==
    \E r \in Runs :
        \/ Decode(r)
        \/ LoopHead(r)
        \/ Export(r)
        \/ OpenRecord(r)
        \/ Recognize(r)
        \/ Classify(r)
        \/ SkipClassify(r)
        \/ AppendResult(r)
        \/ ChunkExists(r)
        \/ ChunkRemove(r)
        \/ FlaskAfterLoop(r)
        \/ StreamlitAfterLoop(r)

Spec == Init /\ [][Next]_vars

SpecConc == InitConc /\ [][Next]_vars

SpecPair == InitPair /\ [][Next]_vars

---------------------------------------------------------------------------
(* Vocabulary of the properties *)

Terminal(r) == run[r].pc \in {"done", "raised"}

\* ceil(d / w)
CeilDiv(d, w) == IF d % w = 0 THEN d \div w ELSE d \div w + 1

\* Past the for loop: every chunk of the track has been cut.
LoopOver(r) == run[r].pc = "after_loop" \/ run[r].pc = "done"

RealText(text) == text # "" /\ text # INAUDIBLE /\ text # UNAVAILABLE

\* The span of segment k (counted from 1) of a track of d ms.
SpanOf(k, d) == <<(k - 1) * chunk_length_ms, Min(k * chunk_length_ms, d)>>

\* M:SS of a number of whole seconds, digit by digit.
Label(sec) ==
    ToString(sec \div 60) \o ":" \o ToString((sec % 60) \div 10) \o ToString(sec % 10)

Values(dict) == {dict[k].value : k \in 1..Len(dict)}

Labels(dict) == {dict[k].label : k \in 1..Len(dict)}

ValueOf(dict, label) == (CHOOSE k \in 1..Len(dict) : dict[k].label = label)

---------------------------------------------------------------------------
(* C1: for a decoded track, whatever the recognizer and the classifier do on
   any segment, no failure of theirs ends the run or reaches the caller, and
   the returned Timeline has one record per segment. *)
C1_NoSegmentFailureAborts ==
    \A r \in Runs :
        /\ run[r].err \notin {"RecognizerError", "ClassifierError"}
        /\ run[r].pc = "done" =>
              Len(run[r].results) = CeilDiv(run[r].dur, chunk_length_ms)

(* C2: on a track of zero duration analyze_audio returns an empty Timeline and
   raises no error, in the Flask copy and in the Streamlit copy. *)
C2_ZeroDurationEmptyTimeline ==
    \A r \in Runs :
        (run[r].decodable /\ run[r].dur = 0) =>
            /\ run[r].pc # "raised"
            /\ run[r].pc = "done" => run[r].results = <<>>

(* C3: the chunk file of a segment is gone before the next segment exports to
   the same path, and no chunk file is left when analyze_audio has ended,
   normally or with an error. *)
C3_ChunkFileScoped ==
    \A r \in Runs :
        /\ run[r].pc = "export" => ~Exists(run[r].chunk_path)
        /\ Terminal(r) => ~Exists(run[r].chunk_path)

(* C4: with two runs at once, between a run's export and its read the file at
   its chunk path is there and holds the chunk this run wrote, and what its
   recognizer is given is this run's own chunk. *)
C4_OwnArtifactPath ==
    \A r \in Runs :
        /\ run[r].pc = "open" =>
              Exists(run[r].chunk_path) /\ fs[run[r].chunk_path] = run[r].chunk
        /\ run[r].pc = "recognize" => run[r].audio_data = run[r].chunk

(* C10: on the same track and the same collaborator answers, the Flask copy
   and the Streamlit copy both return the same Timeline or both raise, and
   neither leaves a chunk file behind. *)
C10_CopiesEquivalent ==
    (Terminal(1) /\ Terminal(2)) =>
        /\ \/ run[1].pc = "done" /\ run[2].pc = "done" /\ run[1].results = run[2].results
           \/ run[1].pc = "raised" /\ run[2].pc = "raised"
        /\ \A r \in Runs : ~Exists(run[r].chunk_path)

---------------------------------------------------------------------------
(* C5: a track of D ms is cut in exactly ceil(D/W) segments, W = 10000;
   segment i covers [i*W, min((i+1)*W, D)); consecutive segments touch and do
   not overlap, together they cover [0, D); a track with 0 < D < W gives the
   one segment [0, D). *)
C5_Segmentation ==
    \A r \in Runs :
        LET D == run[r].audio
            spans == chunks[r]
            n == Len(spans)
        IN  /\ \A k \in 1..n : spans[k] = SpanOf(k, D)
            /\ \A k \in 1..n : spans[k][1] < spans[k][2]
            /\ \A k \in 1..(n - 1) : spans[k][2] = spans[k + 1][1]
            /\ n > 0 => spans[1][1] = 0
            /\ LoopOver(r) =>
                  /\ n = CeilDiv(D, chunk_length_ms)
                  /\ n > 0 => spans[n][2] = D
                  /\ (0 < D /\ D < chunk_length_ms) => spans = << <<0, D>> >>

C5_Witness ==
    \E r \in Runs :
        /\ LoopOver(r)
        /\ run[r].audio = 25000
        /\ chunks[r] = << <<0, 10000>>, <<10000, 20000>>, <<20000, 25000>> >>

(* C9: the record of segment i carries the label "M:SS - M:SS" of
   start_ms = i*10000 and end_ms = min(start_ms + 10000, D), each in whole
   seconds (floor of ms/1000), minutes = seconds div 60, two-digit seconds =
   seconds mod 60, and start_seconds = start_ms div 1000; a 25 s track gives
   "0:00 - 0:10", "0:10 - 0:20", "0:20 - 0:25". *)
C9_Labels ==
    \A r \in Runs :
        LET D == run[r].audio
            res == run[r].results
        IN  /\ \A k \in 1..Len(res) :
                  LET start_ms == SpanOf(k, D)[1]
                      end_ms == SpanOf(k, D)[2]
                  IN  /\ res[k].timestamp =
                             Label(start_ms \div 1000) \o " - " \o Label(end_ms \div 1000)
                      /\ res[k].start_seconds = start_ms \div 1000
            /\ (D = 25000 /\ Len(res) = 3) =>
                  /\ res[1].timestamp = "0:00 - 0:10"
                  /\ res[2].timestamp = "0:10 - 0:20"
                  /\ res[3].timestamp = "0:20 - 0:25"
            /\ (D = 61500 /\ Len(res) = 7) => res[7].timestamp = "1:00 - 1:01"

C9_Witness ==
    \E r \in Runs :
        /\ run[r].pc = "done"
        /\ run[r].audio = 25000
        /\ Len(run[r].results) = 3
        /\ run[r].results[3].timestamp = "0:20 - 0:25"

(* C6: in every record, a sentinel transcript comes with an empty
   all_emotions, top_emotion "unknown" and confidence 0; a non-empty
   all_emotions comes with a real transcript (not empty, not a sentinel) and a
   top_emotion that is one of its categories with the greatest score. *)
C6_RecordShape ==
    \A r \in Runs :
        \A k \in 1..Len(run[r].results) :
            LET rec == run[r].results[k]
                d == rec.all_emotions
            IN  /\ rec.text \in {INAUDIBLE, UNAVAILABLE} =>
                      /\ d = <<>>
                      /\ rec.top_emotion = "unknown"
                      /\ rec.confidence = 0
                /\ d # <<>> =>
                      /\ RealText(rec.text)
                      /\ rec.top_emotion \in Labels(d)
                      /\ \A v \in Values(d) : v <= d[ValueOf(d, rec.top_emotion)].value

C6_Witness ==
    \E r \in Runs :
        /\ run[r].pc = "done"
        /\ \E k \in 1..Len(run[r].results) :
              run[r].results[k].text \in {INAUDIBLE, UNAVAILABLE}
        /\ \E k \in 1..Len(run[r].results) : run[r].results[k].all_emotions # <<>>

\* What may follow what in the calls of one run.
Follows(a, b) ==
    \/ /\ a[1] = "recognize" /\ a[3] # Raised /\ RealText(a[3])
       /\ b[1] = "classify" /\ b[2] = a[2]
    \/ /\ a[1] = "recognize" /\ a[3] # Raised /\ ~RealText(a[3])
       /\ b[1] = "append" /\ b[2] = a[2] /\ b[3] = a[3]
    \/ /\ a[1] = "classify" /\ a[3] # Raised
       /\ b[1] = "append" /\ b[2] = a[2]
    \/ /\ a[1] = "append"
       /\ b[1] = "recognize" /\ b[2] = a[2] + chunk_length_ms

Entries(log, what) == {k \in 1..Len(log) : log[k][1] = what}

(* C7: the external calls of a run go segment by segment in chronological
   order: one recognizer call per segment, then at most one classifier call,
   made only when the recognizer returned real text, then the append of the
   segment's record, and only then the next segment's recognizer call; the
   Timeline is in segment order with strictly increasing start_seconds. *)
C7_Sequential ==
    \A r \in Runs :
        LET log == calls[r]
            res == run[r].results
        IN  /\ Len(log) > 0 => (log[1][1] = "recognize" /\ log[1][2] = 0)
            /\ \A k \in 1..(Len(log) - 1) : Follows(log[k], log[k + 1])
            /\ \A k, m \in Entries(log, "recognize") : log[k][2] = log[m][2] => k = m
            /\ \A k, m \in Entries(log, "classify") : log[k][2] = log[m][2] => k = m
            /\ Len(res) = Cardinality(Entries(log, "append"))
            /\ \A k \in 1..Len(res) :
                  /\ res[k].start_seconds = ((k - 1) * chunk_length_ms) \div 1000
                  /\ \E m \in Entries(log, "append") :
                        log[m][2] = (k - 1) * chunk_length_ms /\ log[m][3] = res[k].text
            /\ \A k \in 1..(Len(res) - 1) : res[k].start_seconds < res[k + 1].start_seconds
            /\ run[r].pc = "done" =>
                  {log[k][2] : k \in Entries(log, "recognize")}
                      = {(k - 1) * chunk_length_ms :
                            k \in 1..CeilDiv(run[r].audio, chunk_length_ms)}

C7_Witness ==
    \E r \in Runs :
        /\ run[r].pc = "done"
        /\ Len(run[r].results) = 3
        /\ Entries(calls[r], "classify") # {}
        /\ \E k \in Entries(calls[r], "recognize") : calls[r][k][3] = INAUDIBLE

\* The classifier's answer for segment k of run r.
RawScores(r, k) ==
    clsMemo[[track |-> run[r].track,
             from |-> SpanOf(k, run[r].audio)[1],
             to |-> SpanOf(k, run[r].audio)[2]]].scores

(* C8 as stated: with a real transcript, top_emotion is the category with the
   greatest score of all_emotions (scaled to 0-100, rounded to one decimal),
   the first of them in the classifier's order when several share that score,
   and confidence is all_emotions[top_emotion]. *)
C8_TopIsFirstRoundedMax ==
    \A r \in Runs :
        \A k \in 1..Len(run[r].results) :
            LET rec == run[r].results[k]
                d == rec.all_emotions
            IN  RealText(rec.text) =>
                   \E j \in 1..Len(d) :
                      /\ \A m \in 1..Len(d) : d[m].value <= d[j].value
                      /\ \A m \in 1..(j - 1) : d[m].value < d[j].value
                      /\ rec.top_emotion = d[j].label
                      /\ rec.confidence = d[j].value

(* C8 as amended: with a real transcript, top_emotion is the category with the
   greatest score as the classifier returned it (before scaling and rounding),
   the first of them in the classifier's order when several share that score;
   its score in all_emotions is the greatest there, and confidence is
   all_emotions[top_emotion]. *)
C8_TopIsFirstRawMax ==
    \A r \in Runs :
        \A k \in 1..Len(run[r].results) :
            LET rec == run[r].results[k]
                d == rec.all_emotions
            IN  RealText(rec.text) =>
                   \E j \in 1..Len(RawScores(r, k)) :
                      LET raw == RawScores(r, k)
                      IN  /\ \A m \in 1..Len(raw) : raw[m].score <= raw[j].score
                          /\ \A m \in 1..(j - 1) : raw[m].score < raw[j].score
                          /\ rec.top_emotion = raw[j].label
                          /\ rec.top_emotion \in Labels(d)
                          /\ rec.confidence = d[ValueOf(d, rec.top_emotion)].value
                          /\ \A v \in Values(d) : v <= rec.confidence

C8_Witness ==
    \E r \in Runs :
        \E k \in 1..Len(run[r].results) :
            /\ RealText(run[r].results[k].text)
            /\ RawScores(r, k) = Scores(1349, 1351)
            /\ run[r].results[k].top_emotion = "joy"
            /\ run[r].results[k].confidence = 450
            /\ run[r].results[k].all_emotions[1] = [label |-> "anger", value |-> 450]

====
